---- MODULE Spec2Model ----
(***************************************************************************)
(* A model of two sigmac output backends:                                  *)
(*   tools/sigma/backends/uberagent.py  (uberAgent ESA rule files)         *)
(*   tools/sigma/backends/qradar.py     (QRadar AQL queries)               *)
(*                                                                         *)
(* Text is a sequence of one-character strings; rendered fragments may     *)
(* also hold the backends' fixed tokens (" or ", " == ", ...) as single    *)
(* elements.  A Python exception is the "exc" field of a result record.    *)
(***************************************************************************)
EXTENDS Integers, Sequences, FiniteSets, TLC

VARIABLES
    rules,                  \* uberAgentBackend.rules (class attribute)
    gUnsupportedCategories, \* module-level dict: category -> count (0: absent)
    current_category,       \* uberAgentBackend.current_category
    files,                  \* the four uberAgent-ESA-am-sigma-<level>.conf files
    summary,                \* the counts finalize prints
    ret,                    \* what the last generate call returned or raised
    val,                    \* argument of the value-level operation
    op,                     \* the value-level operation that ran
    out                     \* its result

vars == <<rules, gUnsupportedCategories, current_category, files, summary,
          ret, val, op, out>>

batchVars == <<rules, gUnsupportedCategories, current_category, files, summary,
               ret>>

valueVars == <<val, op, out>>

----------------------------------------------------------------------------
(* Bounds *)

MaxRules == 2

MaxUnsupported == 1

MaxLen == 3

MaxRun == 4

MaxItems == 2

----------------------------------------------------------------------------
(* Text helpers *)

BS == "\\"

DQ == "\""

SQ == "'"

None == "None"

\* The element of a one-element set: Only({F(x) : x \in {e}}) is F(e) with e
\* evaluated once.
Only(S) == CHOOSE x \in S : TRUE

RECURSIVE Flatten(_)
Flatten(ss) == IF ss = <<>> THEN <<>> ELSE Head(ss) \o Flatten(Tail(ss))

RECURSIVE Join(_, _)
Join(sep, parts) ==
    IF parts = <<>> THEN <<>>
    ELSE IF Len(parts) = 1 THEN parts[1]
    ELSE parts[1] \o sep \o Join(sep, Tail(parts))

Contains(s, sub) ==
    \E i \in 1..(Len(s) - Len(sub) + 1) : SubSeq(s, i, i + Len(sub) - 1) = sub

HasChar(s, c) == \E i \in 1..Len(s) : s[i] = c

Replace1(s, c, r) ==
    Flatten([i \in 1..Len(s) |-> IF s[i] = c THEN r ELSE <<s[i]>>])

Rep(c, n) == [i \in 1..n |-> c]

RECURSIVE StringsUpTo(_, _)
StringsUpTo(A, n) ==
    IF n = 0 THEN {<<>>}
    ELSE LET S == StringsUpTo(A, n - 1)
         IN  S \cup {Append(s, c) : s \in {t \in S : Len(t) = n - 1}, c \in A}

\* Number of backslashes immediately before position i of s.
RECURSIVE RunBefore(_, _)
RunBefore(s, i) ==
    IF i > 1 /\ s[i - 1] = BS THEN 1 + RunBefore(s, i - 1) ELSE 0

\* Number of backslashes starting at position i of s.
RECURSIVE RunFrom(_, _)
RunFrom(s, i) ==
    IF i <= Len(s) /\ s[i] = BS THEN 1 + RunFrom(s, i + 1) ELSE 0

Digits == {"0", "1", "2", "3", "4", "5", "6", "7", "8", "9"}

DigitVal(c) ==
    CASE c = "0" -> 0 [] c = "1" -> 1 [] c = "2" -> 2 [] c = "3" -> 3
      [] c = "4" -> 4 [] c = "5" -> 5 [] c = "6" -> 6 [] c = "7" -> 7
      [] c = "8" -> 8 [] c = "9" -> 9

DigitChar(d) == <<"0", "1", "2", "3", "4", "5", "6", "7", "8", "9">>[d + 1]

\* str(n) of a Python int.
RECURSIVE NatStr(_)
NatStr(n) == IF n < 10 THEN <<DigitChar(n)>> ELSE Append(NatStr(n \div 10), DigitChar(n % 10))

IntStr(n) == IF n < 0 THEN <<"-">> \o NatStr(0 - n) ELSE NatStr(n)

\* Values of the condition tree.
StrV(s) == [t |-> "str", s |-> s]

IntV(n) == [t |-> "int", n |-> n]

NullV == [t |-> "null"]

ListV(items) == [t |-> "list", items |-> items]

TypedV(kind, s) == [t |-> "typed", kind |-> kind, s |-> s]

\* str(node) of a scalar.
PyStr(v) == IF v.t = "int" THEN IntStr(v.n) ELSE v.s

----------------------------------------------------------------------------
(* Results of a call: a value, None, or a raised exception *)

Ok(text) == [exc |-> "", isNone |-> FALSE, text |-> text]

NoneR == [exc |-> "", isNone |-> TRUE, text |-> <<>>]

Raise(e) == [exc |-> e, isNone |-> FALSE, text |-> <<>>]

\* str.lower() on the names the model uses.
Lower(name) ==
    CASE name = "Image" -> "image"
      [] name = "IMAGE" -> "image"
      [] name = "EventID" -> "eventid"
      [] name = "EVENTID" -> "eventid"
      [] name = "SHA1" -> "sha1"
      [] name = "Sha1" -> "sha1"
      [] name = "Query" -> "query"
      [] name = "QUERY" -> "query"
      [] name = "Foo" -> "foo"
      [] name = "FOO" -> "foo"
      [] name = "SRC_IP" -> "src_ip"
      [] name = "Signed" -> "signed"
      [] name = "TargetObject" -> "targetobject"
      [] name = "User" -> "user"
      [] name = "Process_Creation" -> "process_creation"
      [] name = "Windows" -> "windows"
      [] OTHER -> name

----------------------------------------------------------------------------
(* uberagent.py: cleanValue *)

\* re.sub(r"(?<!\\)\\(?!(\\|\*|\?))", r"\\\\", val): a backslash that no
\* backslash precedes and that is not followed by \, * or ? is doubled.
SubLoneBackslash(s) ==
    Flatten([i \in 1..Len(s) |->
        IF /\ s[i] = BS
           /\ (i = 1 \/ s[i - 1] # BS)
           /\ (i = Len(s) \/ s[i + 1] \notin {BS, "*", "?"})
        THEN <<BS, BS>>
        ELSE <<s[i]>>])

\* re.sub(r"(?<!\\)(\\\\)*(?!\\)<g>", r"\1<t>", val), scanning from position i.
\* A match starts where no backslash precedes, spans an even run of
\* backslashes and the glyph g; group 1 is the LAST backslash pair matched
\* (empty when the run is empty), so the replacement keeps at most one pair.
RECURSIVE SubWildcardFrom(_, _, _, _)
SubWildcardFrom(s, i, g, t) ==
    IF i > Len(s) THEN <<>>
    ELSE Only({
            IF /\ (i = 1 \/ s[i - 1] # BS)
               /\ r % 2 = 0
               /\ i + r <= Len(s)
               /\ s[i + r] = g
            THEN (IF r >= 2 THEN <<BS, BS>> ELSE <<>>) \o <<t>>
                 \o Only({SubWildcardFrom(s, j, g, t) : j \in {i + r + 1}})
            ELSE <<s[i]>> \o Only({SubWildcardFrom(s, j, g, t) : j \in {i + 1}})
          : r \in {RunFrom(s, i)}})

SubWildcard(s, g, t) == SubWildcardFrom(s, 1, g, t)

\* uberAgentBackend.cleanValue on a str.
UaCleanStr(s) ==
    Only({SubWildcard(s5, "?", "_") :
      s5 \in {SubWildcard(s4, "*", "%") :
        s4 \in {Replace1(s3, DQ, <<BS, DQ>>) :
          s3 \in {Replace1(s2, "%", <<BS, "%">>) :
            s2 \in {Replace1(s1, "_", <<BS, "_">>) :
              s1 \in {SubLoneBackslash(s0) : s0 \in {s}}}}}}})

\* uberAgentBackend.cleanValue: a non-str is str(val).
UaCleanValue(v) == IF v.t # "str" THEN PyStr(v) ELSE UaCleanStr(v.s)

----------------------------------------------------------------------------
(* qradar.py: cleanKey, cleanValue, generateValueNode *)

NoneKey == <<None>>

QrCleanKey(key) ==
    IF key = NoneKey THEN <<>>
    ELSE IF HasChar(key, " ") THEN <<DQ>> \o key \o <<DQ>>
    ELSE key

\* value.replace("'", "\\'")
QrCleanValue(s) == Replace1(s, SQ, <<BS, SQ>>)

QrGenerateValueNode(v, keypresent) ==
    IF keypresent = FALSE
    THEN <<"UTF8(payload) ilike ", SQ, "%">> \o QrCleanValue(PyStr(v)) \o <<"%", SQ>>
    ELSE <<SQ>> \o QrCleanValue(PyStr(v)) \o <<SQ>>

----------------------------------------------------------------------------
(* qradar.py: generateMapItemNode and what it dispatches to *)

\* One clause of generateMapItemListNode.
QrListClause(key, item) ==
    IF item.t = "null" THEN key \o <<" is null">>
    ELSE IF /\ item.t = "str"
            /\ Contains(key, <<"i", "p">>)
            /\ (Contains(item.s, <<"/", "1", "6">>) \/ Contains(item.s, <<"/", "2", "4">>))
    THEN <<"INCIDR(">> \o QrGenerateValueNode(item, TRUE) \o <<", ">>
         \o QrCleanKey(key) \o <<")">>
    ELSE IF item.t = "str" /\ HasChar(item.s, "*")
    THEN QrCleanKey(key) \o <<" ilike ">>
         \o QrGenerateValueNode(StrV(Replace1(item.s, "*", <<"%">>)), TRUE)
    ELSE QrCleanKey(key) \o <<" = ">> \o QrGenerateValueNode(item, TRUE)

QrGenerateMapItemListNode(key, items) ==
    <<"(">>
    \o Join(<<" or ">>, [i \in 1..Len(items) |-> QrListClause(key, items[i])])
    \o <<")">>

StartsWith(s, pre) == Len(s) >= Len(pre) /\ SubSeq(s, 1, Len(pre)) = pre

EndsWith(s, suf) ==
    Len(s) >= Len(suf) /\ SubSeq(s, Len(s) - Len(suf) + 1, Len(s)) = suf

\* An anchoring that takes only ^ and $ for anchors.
AnchorRegexCaretDollar(regex) ==
    LET front == IF ~StartsWith(regex, <<"^">>) THEN <<".", "*">> \o regex ELSE regex
    IN  IF ~EndsWith(front, <<"$">>) THEN front \o <<".", "*">> ELSE front

\* The regex generateMapItemTypedNode builds: it has to match the full value.
AnchorRegex(regex) ==
    LET front == IF ~StartsWith(regex, <<"^">>) /\ ~StartsWith(regex, <<".", "*">>)
                 THEN <<".", "*">> \o regex ELSE regex
    IN  IF ~EndsWith(front, <<"$">>) /\ ~EndsWith(front, <<".", "*">>)
        THEN front \o <<".", "*">> ELSE front

QrGenerateMapItemTypedNode(fieldname, value) ==
    IF value.kind # "re" THEN Raise("NotImplementedError")
    ELSE Ok(QrCleanKey(fieldname) \o <<" imatches ">>
            \o QrGenerateValueNode(StrV(AnchorRegex(value.s)), TRUE))

QrGenerateMapItemNode(node) ==
    LET key == node.field
        value == node.value
    IN  IF value.t \in {"str", "int"}
        THEN IF value.t = "str" /\ HasChar(value.s, "*")
             THEN Ok(QrCleanKey(key) \o <<" ilike ">>
                     \o QrGenerateValueNode(StrV(Replace1(value.s, "*", <<"%">>)), TRUE))
             ELSE Ok(QrCleanKey(key) \o <<"=">> \o QrGenerateValueNode(value, TRUE))
        ELSE IF value.t = "list" THEN Ok(QrGenerateMapItemListNode(key, value.items))
        ELSE IF value.t = "typed" THEN QrGenerateMapItemTypedNode(key, value)
        ELSE IF value.t = "null" THEN Ok(key \o <<" is null">>)
        ELSE Raise("TypeError")

----------------------------------------------------------------------------
(* qradar.py: generateAggregation, generateTimeframe, generateQuery, generate *)

AGGFUNC_NEAR == "near"

\* No aggregation (agg is None), no timeframe (None), and the default '00'.
NoAgg == [aggfunc |-> None]

NoTimeframe == <<None>>

DefaultTimeframe == <<"0", "0">>

aql_database == "events"

\* int(duration) of a string of digits.
RECURSIVE ParseNat(_)
ParseNat(ds) ==
    IF ds = <<>> THEN 0
    ELSE 10 * ParseNat(SubSeq(ds, 1, Len(ds) - 1)) + DigitVal(ds[Len(ds)])

\* A generateTimeframe whose last branch is days, not months.
QrGenerateTimeframeDays(timeframe) ==
    LET time_unit == SubSeq(timeframe, Len(timeframe), Len(timeframe))
        duration == SubSeq(timeframe, 1, Len(timeframe) - 1)
    IN  IF duration = <<>> \/ \E i \in 1..Len(duration) : duration[i] \notin Digits
        THEN [exc |-> "ValueError"]
        ELSE [exc |-> "",
              key |-> CASE time_unit = <<"s">> -> "seconds"
                        [] time_unit = <<"m">> -> "minutes"
                        [] time_unit = <<"h">> -> "hours"
                        [] OTHER -> "days",
              duration |-> ParseNat(duration)]

\* generateTimeframe: the one entry of timeframe_object, or int()'s ValueError.
QrGenerateTimeframe(timeframe) ==
    LET time_unit == SubSeq(timeframe, Len(timeframe), Len(timeframe))
        duration == SubSeq(timeframe, 1, Len(timeframe) - 1)
    IN  IF duration = <<>> \/ \E i \in 1..Len(duration) : duration[i] \notin Digits
        THEN [exc |-> "ValueError"]
        ELSE [exc |-> "",
              key |-> CASE time_unit = <<"s">> -> "seconds"
                        [] time_unit = <<"m">> -> "minutes"
                        [] time_unit = <<"h">> -> "hours"
                        [] time_unit = <<"d">> -> "days"
                        [] OTHER -> "months",
              duration |-> ParseNat(duration)]

AggPair(prefix, suffix) ==
    [exc |-> "", tuple |-> TRUE, prefix |-> prefix, suffix |-> suffix]

\* generateAggregation past its two early exits.
QrAggregationPair(agg, timeframe) ==
    IF agg.groupfield = NoneKey
    THEN AggPair(<<"SELECT ", agg.aggfunc_notrans, "(">> \o QrCleanKey(agg.aggfield)
                    \o <<") as agg_val from ", aql_database, " where">>,
                 <<" group by ">> \o QrCleanKey(agg.aggfield)
                    \o <<" having agg_val ", agg.cond_op, " ", agg.condition>>)
    ELSE IF timeframe = DefaultTimeframe \/ timeframe = NoTimeframe
    THEN AggPair(<<" SELECT ", agg.aggfunc_notrans, "(">> \o QrCleanKey(agg.aggfield)
                    \o <<") as agg_val from ", aql_database, " where ">>,
                 <<" group by ">> \o QrCleanKey(agg.groupfield)
                    \o <<" having agg_val ", agg.cond_op, " ", agg.condition>>)
    ELSE LET tf == QrGenerateTimeframe(timeframe)
         IN  IF tf.exc # "" THEN Raise(tf.exc)
             ELSE AggPair(<<" SELECT ", agg.aggfunc_notrans, "(">>
                             \o QrCleanKey(agg.aggfield)
                             \o <<") as agg_val from ", aql_database, " where ">>,
                          <<" group by ">> \o QrCleanKey(agg.groupfield)
                             \o <<" having agg_val ", agg.cond_op, " ", agg.condition>>
                             \o <<" LAST ">> \o NatStr(tf.duration) \o <<" ", tf.key>>)

\* An aggregation that renders near like any other function.
QrGenerateAggregationNearAllowed(agg, timeframe) ==
    IF agg = NoAgg THEN [exc |-> "", tuple |-> FALSE, prefix |-> <<>>, suffix |-> <<>>]
    ELSE QrAggregationPair(agg, timeframe)

\* generateAggregation: "" for no aggregation, else (prefix, suffix).
QrGenerateAggregation(agg, timeframe) ==
    IF agg = NoAgg THEN [exc |-> "", tuple |-> FALSE, prefix |-> <<>>, suffix |-> <<>>]
    ELSE IF agg.aggfunc = AGGFUNC_NEAR THEN Raise("NotImplementedError")
    ELSE QrAggregationPair(agg, timeframe)

\* No 'fields' attribute in the rule.
NoFields == <<None>>

\* The selected columns generateQuery adds for the rule's mapped fields.
RECURSIVE QrFieldColumns(_)
QrFieldColumns(mappedFields) ==
    IF mappedFields = <<>> THEN <<>>
    ELSE LET mapped == Head(mappedFields)
         IN  (IF HasChar(mapped, " ") /\ ~HasChar(mapped, "(")
              THEN <<", ", DQ>> \o mapped \o <<DQ>>
              ELSE <<", ">> \o mapped)
             \o QrFieldColumns(Tail(mappedFields))

\* generateQuery(parsed, sigmaparser); sp.fields holds the field names as
\* the configuration resolved them, sp.timeframe the detection's timeframe.
QrGenerateQuery(parsed, sp) ==
    LET result == QrGenerateMapItemNode(parsed.parsedSearch)
        database == IF \E k \in 1..Len(sp.index) : Contains(sp.index[k], <<"f", "l", "o", "w">>)
                    THEN "flows" ELSE "events"
        qradarPrefix == <<"SELECT UTF8(payload) as search_payload">>
                        \o (IF sp.fields = NoFields THEN <<>> ELSE QrFieldColumns(sp.fields))
                        \o <<" from ", database, " where ">>
        agg == IF parsed.parsedAgg = NoAgg THEN NoAgg
               ELSE IF sp.timeframe = NoTimeframe
               THEN QrGenerateAggregation(parsed.parsedAgg, DefaultTimeframe)
               ELSE QrGenerateAggregation(parsed.parsedAgg, sp.timeframe)
    IN  IF result.exc # "" THEN result
        ELSE IF parsed.parsedAgg = NoAgg THEN Ok(qradarPrefix \o result.text)
        ELSE IF agg.exc # "" THEN Raise(agg.exc)
        ELSE Ok(agg.prefix \o result.text \o agg.suffix)

\* generateBefore and generateAfter of the base class: nothing to add.
QrGenerateBefore(parsed) == NoneR

QrGenerateAfter(parsed) == NoneR

\* QRadarBackend.generate: the text of the first parsed condition.
QrGenerate(sp) ==
    LET parsed == sp.condparsed
        query == QrGenerateQuery(parsed, sp)
        before == QrGenerateBefore(parsed)
        after == QrGenerateAfter(parsed)
    IN  IF query.exc # "" THEN query
        ELSE Ok((IF before.isNone THEN <<>> ELSE before.text)
                \o (IF query.isNone THEN <<>> ELSE query.text)
                \o (IF after.isNone THEN <<>> ELSE after.text))

----------------------------------------------------------------------------
(* uberagent.py: module-level converters *)

levels == [critical |-> 100, high |-> 75, medium |-> 50, low |-> 25]

convert_sigma_level_to_uberagent_risk_score(level) ==
    IF level \in DOMAIN levels THEN levels[level] ELSE 0

LowerChar(c) ==
    CASE c = "A" -> "a" [] c = "B" -> "b" [] c = "C" -> "c" [] OTHER -> c

\* re.sub(r"-{2,}", "-", tag): every run of dashes becomes one dash.
RECURSIVE CollapseDashes(_)
CollapseDashes(s) ==
    IF Len(s) < 2 THEN s
    ELSE IF s[1] = "-" /\ s[2] = "-" THEN CollapseDashes(Tail(s))
    ELSE <<s[1]>> \o CollapseDashes(Tail(s))

convert_sigma_name_to_uberagent_tag(name) ==
    CollapseDashes([i \in 1..Len(name) |->
        IF LowerChar(name[i]) = " " THEN "-" ELSE LowerChar(name[i])])

categories ==
    [process_creation |-> "Process.Start",
     image_load |-> "Image.Load",
     dns |-> "Dns.Query",
     dns_query |-> "Dns.Query",
     network_connection |-> "Net.Any",
     firewall |-> "Net.Any",
     create_remote_thread |-> "Process.CreateRemoteThread",
     registry_event |-> "Reg.Any",
     registry_add |-> "Reg.Any",
     registry_delete |-> "Reg.Any",
     registry_set |-> "Reg.Any",
     registry_rename |-> "Reg.Any"]

\* The value convert_sigma_category_to_uberagent_event_type returns; its
\* count of unsupported categories is CountUnsupported below.
convert_sigma_category_to_uberagent_event_type(category) ==
    IF category \in DOMAIN categories THEN categories[category] ELSE None

CountUnsupported(g, category) ==
    IF category \in DOMAIN categories THEN g
    ELSE [g EXCEPT ![category] = @ + 1]

is_sigma_category_supported(category) ==
    convert_sigma_category_to_uberagent_event_type(category) # None

----------------------------------------------------------------------------
(* uberagent.py: ActivityMonitoringRule *)

generic_properties ==
    <<  <<"Process.", <<"Process.Hash.MD5", "Process.Hash.SHA1",
                        "Process.Hash.SHA256", "Process.Hash.IMP">> >>,
        <<"Image.", <<"Image.Name", "Image.Path", "Image.Hash.MD5",
                      "Image.Hash.SHA1", "Image.Hash.SHA256", "Image.Hash.IMP">> >>,
        <<"Net.", <<"Net.Target.Ip", "Net.Target.Name", "Net.Target.Port",
                    "Net.Target.Protocol", "Net.Source.Ip", "Net.Source.Port">> >>,
        <<"Reg.", <<"Reg.Key.Path", "Reg.Key.Path.New", "Reg.Key.Path.Old",
                    "Reg.Key.Name", "Reg.Parent.Key.Path", "Reg.Value.Name",
                    "Reg.File.Name", "Reg.Key.Sddl", "Reg.Key.Hive",
                    "Reg.Key.Target">> >>,
        <<"Dns.", <<"Dns.QueryRequest", "Dns.QueryResponse">> >> >>

\* event_type.startswith(prefix) on the event types of the categories table.
EventTypeStartsWith(event_type, prefix) ==
    CASE prefix = "Process." -> event_type \in {"Process.Start", "Process.CreateRemoteThread"}
      [] prefix = "Image." -> event_type = "Image.Load"
      [] prefix = "Net." -> event_type = "Net.Any"
      [] prefix = "Reg." -> event_type = "Reg.Any"
      [] prefix = "Dns." -> event_type = "Dns.Query"
      [] OTHER -> FALSE

MaxGenericProperties == 10

_prefixed_tag(rule) ==
    IF rule.event_type # "Process.Start" THEN rule.tag
    ELSE <<"proc-start", "-">> \o rule.tag

\* description.splitlines() of a description without line breaks.
Splitlines(d) == IF d = "" THEN <<>> ELSE <<d>>

\* The GenericProperty<counter> lines, counter running over all groups.
RECURSIVE GenericLines(_, _, _)
GenericLines(event_type, groups, counter) ==
    IF groups = <<>> THEN <<>>
    ELSE LET g == Head(groups)
             props == IF EventTypeStartsWith(event_type, g[1]) THEN g[2] ELSE <<>>
             room == MaxGenericProperties - (counter - 1)
         IN  Only({
                [i \in 1..Len(kept) |-> <<"GenericProperty", counter + i - 1, kept[i]>>]
                \o Only({GenericLines(event_type, rest, c) :
                            rest \in {Tail(groups)}, c \in {counter + Len(kept)}})
              : kept \in {SubSeq(props, 1, IF Len(props) < room THEN Len(props) ELSE room)}})

\* The lines __str__ builds for a rule that has all it requires.
RuleLines(rule) ==
       (<< <<"[ActivityMonitoringRule]">> >>
            \o [i \in 1..Len(Splitlines(rule.description)) |->
                    <<"# ", Splitlines(rule.description)[i]>>]
            \o << <<"RuleName = ", rule.name>>,
                  <<"EventType = ", rule.event_type>>,
                  <<"Tag = ", _prefixed_tag(rule)>> >>
            \o (IF rule.risk_score > 0 THEN << <<"RiskScore = ", rule.risk_score>> >> ELSE <<>>)
            \o << <<"Query = ", rule.query>> >>
            \o (IF rule.event_type = "Reg.Any" THEN << <<"Hive = HKLM,HKU">> >> ELSE <<>>)
            \o GenericLines(rule.event_type, generic_properties, 1))

\* A __str__ that raises nothing: it writes the block of any rule.
RuleStrUnchecked(rule) == Ok(RuleLines(rule))

\* ActivityMonitoringRule.__str__: the block's lines, or MalformedRuleException
\* (the lines built before the raise are lost with the local variable).
RuleStr(rule) ==
    IF \/ rule.event_type = None
       \/ Len(rule.tag) = 0
       \/ Len(rule.name) = 0
       \/ Len(rule.query) = 0
    THEN Raise("MalformedRuleException")
    ELSE Ok(RuleLines(rule))

----------------------------------------------------------------------------
(* uberagent.py: uberAgentBackend, field mapping and node compiler *)

fieldMapping ==
    [commandline |-> "Process.CommandLine",
     image |-> "Process.Path",
     originalfilename |-> "Process.Name",
     imageloaded |-> "Image.Path",
     imagepath |-> "Image.Path",
     parentcommandline |-> "Parent.CommandLine",
     parentprocessname |-> "Parent.Name",
     parentimage |-> "Parent.Path",
     path |-> "Process.Path",
     processcommandline |-> "Process.CommandLine",
     command |-> "Process.CommandLine",
     processname |-> "Process.Name",
     user |-> "Process.User",
     username |-> "Process.User",
     company |-> "Process.Company"]

RegistryFieldMapping ==
    [targetobject |-> "Reg.Key.Target", newname |-> "Reg.Key.Path.New"]

fieldMappingPerCategory ==
    [process_creation |->
        [sha1 |-> "Process.Hash.SHA1", imphash |-> "Process.Hash.IMP",
         childimage |-> "Process.Path"],
     image_load |->
        [sha1 |-> "Image.Hash.SHA1", imphash |-> "Image.Hash.IMP",
         childimage |-> "Image.Path"],
     dns |-> [query |-> "Dns.QueryRequest", answer |-> "Dns.QueryResponse"],
     dns_query |-> [queryname |-> "Dns.QueryRequest"],
     network_connection |->
        [destinationport |-> "Net.Target.Port", destinationip |-> "Net.Target.Ip",
         destinationhostname |-> "Net.Target.Name",
         destinationisipv6 |-> "Net.Target.IpIsV6",
         sourceport |-> "Net.Source.Port"],
     firewall |->
        ("destination.port" :> "Net.Target.Port" @@ "dst_ip" :> "Net.Target.Ip"
         @@ "src_ip" :> "Net.Source.Ip"),
     create_remote_thread |->
        [targetimage |-> "Process.Path", startmodule |-> "Thread.StartModule",
         startfunction |-> "Thread.StartFunctionName"],
     registry_event |-> RegistryFieldMapping,
     registry_add |-> RegistryFieldMapping,
     registry_delete |-> RegistryFieldMapping,
     registry_set |-> RegistryFieldMapping,
     registry_rename |-> RegistryFieldMapping]

ignoreFieldList ==
    {"description", "product", "logonid", "integritylevel", "currentdirectory",
     "parentintegritylevel", "eventid", "parentuser", "parent_domain", "signed",
     "parentofparentimage", "record_type", "querystatus", "initiated", "action",
     "targetprocessaddress", "sourceimage", "eventtype", "details"}

\* A fieldNameMapping that looks the name up as it is spelled.
fieldNameMappingCaseSensitive(category, fieldname) ==
    LET key == fieldname
    IN  IF /\ category # None
           /\ category \in DOMAIN fieldMappingPerCategory
           /\ key \in DOMAIN fieldMappingPerCategory[category]
        THEN Ok(<<fieldMappingPerCategory[category][key]>>)
        ELSE IF key \notin DOMAIN fieldMapping
        THEN IF key \in ignoreFieldList
             THEN Raise("IgnoreFieldException")
             ELSE Raise("NotImplementedError")
        ELSE Ok(<<fieldMapping[key]>>)

fieldNameMapping(category, fieldname) ==
    LET key == Lower(fieldname)
    IN  IF /\ category # None
           /\ category \in DOMAIN fieldMappingPerCategory
           /\ key \in DOMAIN fieldMappingPerCategory[category]
        THEN Ok(<<fieldMappingPerCategory[category][key]>>)
        ELSE IF key \notin DOMAIN fieldMapping
        THEN IF key \in ignoreFieldList
             THEN Raise("IgnoreFieldException")
             ELSE Raise("NotImplementedError")
        ELSE Ok(<<fieldMapping[key]>>)

\* Condition tree nodes.
MapItem(field, value) == [t |-> "map", field |-> field, value |-> value]

AndNode(children) == [t |-> "and", children |-> children]

OrNode(children) == [t |-> "or", children |-> children]

\* SingleTextQueryBackend.generateValueNode with valueExpression "\"%s\"".
UaGenerateValueNode(v) == <<DQ>> \o UaCleanValue(StrV(PyStr(v))) \o <<DQ>>

\* generateNode of a FieldMatch value: a scalar, a list (listExpression
\* "[%s]", listSeparator ", ") or a typed modifier (generateTypedValueNode).
UaGenerateValue(v) ==
    CASE v.t \in {"str", "int"} -> Ok(UaGenerateValueNode(v))
      [] v.t = "list" ->
            Ok(<<"[">>
               \o Join(<<",", " ">>, [i \in 1..Len(v.items) |-> UaGenerateValueNode(v.items[i])])
               \o <<"]">>)
      [] v.t = "typed" -> Raise("IgnoreTypedModifierException")

\* re.search(r"((\\(\*|\?|\\))|\*|\?|_|%)", text)
\* A wildcard test that knows only the rule language's own glyphs.
UaHasSigmaWildcard(text) ==
    \E i \in 1..Len(text) : text[i] \in {"*", "?"}

UaHasWildcard(text) ==
    \E i \in 1..Len(text) :
        \/ text[i] \in {"*", "?", "_", "%"}
        \/ text[i] = BS /\ i < Len(text) /\ text[i + 1] \in {"*", "?", BS}

UaGenerateMapItemListNode(key, items) ==
    <<"(">>
    \o Join(<<" or ">>, [i \in 1..Len(items) |->
                            key \o <<" like r">> \o UaGenerateValueNode(items[i])])
    \o <<")">>

\* uberAgentBackend.generateMapItemNode, given the results of its calls:
\* mapped of fieldNameMapping, gen of generateNode(value) (not called when
\* the field name raised or the value is None).
UaMapItem(mapped, value, gen) ==
    LET has_wildcard == UaHasWildcard(gen.text)
    IN  IF mapped.exc # "" THEN mapped
        ELSE IF value.t = "null" THEN Ok(mapped.text \o <<" == ''">>)
        ELSE IF gen.exc # "" THEN gen
        ELSE IF HasChar(gen.text, ",") /\ ~has_wildcard
             THEN Ok(mapped.text \o <<" in ">> \o gen.text)
        ELSE IF value.t = "list"
             THEN Ok(UaGenerateMapItemListNode(mapped.text, value.items))
        ELSE IF value.t \in {"str", "int"}
             THEN IF has_wildcard
                  THEN Ok(mapped.text \o <<" like r">> \o gen.text)
                  ELSE Ok(mapped.text \o <<" == ">> \o gen.text)
        ELSE IF has_wildcard
             THEN Ok(mapped.text \o <<" like r">> \o gen.text)
        ELSE Raise("TypeError")

UaGenerateMapItemNode(category, node) ==
    Only({UaMapItem(mapped, node.value, gen) :
            mapped \in {fieldNameMapping(category, node.field)},
            gen \in {IF node.value.t = "null" THEN NoneR
                     ELSE UaGenerateValue(node.value)}})

\* The first exception raised among results evaluated in order, if any.
FirstRaised(rs) ==
    IF \E i \in 1..Len(rs) : rs[i].exc # ""
    THEN rs[CHOOSE i \in 1..Len(rs) :
                rs[i].exc # "" /\ \A j \in 1..(i - 1) : rs[j].exc = ""]
    ELSE NoneR

\* SingleTextQueryBackend.generateANDNode / generateORNode: the children are
\* generated in order, None results are left out and the rest joined with
\* the token; an exception raised by a child is not handled here.
JoinResults(token, rs) ==
    LET raised == FirstRaised(rs)
        filtered == SelectSeq(rs, LAMBDA r : ~r.isNone)
    IN  IF raised.exc # "" THEN raised
        ELSE IF filtered = <<>> THEN NoneR
        ELSE Ok(Join(<<token>>, [i \in 1..Len(filtered) |-> filtered[i].text]))

JoinNode(token, children) == Only({JoinResults(token, rs) : rs \in {children}})

RECURSIVE UaGenerateNode(_, _)
UaGenerateNode(category, node) ==
    CASE node.t = "and" ->
            JoinNode(" and ", [i \in 1..Len(node.children) |->
                                  UaGenerateNode(category, node.children[i])])
      [] node.t = "or" ->
            JoinNode(" or ", [i \in 1..Len(node.children) |->
                                 UaGenerateNode(category, node.children[i])])
      [] node.t = "map" -> UaGenerateMapItemNode(category, node)

\* uberAgentBackend.generateQuery
UaGenerateQuery(category, parsed) ==
    IF parsed.parsedAgg THEN Raise("IgnoreAggregationException")
    ELSE UaGenerateNode(category, parsed.parsedSearch)

\* SingleTextQueryBackend.generate: "" followed by the query unless it is None.
BaseGenerate(category, parsed) ==
    LET query == UaGenerateQuery(category, parsed)
    IN  IF query.exc # "" THEN query
        ELSE IF query.isNone THEN Ok(<<>>)
        ELSE Ok(query.text)

----------------------------------------------------------------------------
(* uberagent.py: generate, serialize_file, finalize *)

FileLevels == {"critical", "high", "low", "medium"}

\* write_file_header: the header block names the level of the file.
write_file_header(level) == << <<"header", level>> >>

\* The rule generate builds from a non-empty query.
BuildRule(title, category, query, level, description) ==
    [name |-> title,
     tag |-> convert_sigma_name_to_uberagent_tag(title),
     event_type |-> convert_sigma_category_to_uberagent_event_type(category),
     query |-> query,
     risk_score |-> convert_sigma_level_to_uberagent_risk_score(level),
     sigma_level |-> level,
     description |-> description]

CaughtByGenerate ==
    {"IgnoreTypedModifierException", "IgnoreAggregationException",
     "IgnoreFieldException", "MalformedRuleException"}

\* A generate that appends whatever the compiler returned, also no query.
generateSupportedAnyQuery(rs, g, cur, sp, product, category, query) ==
    IF product \notin {"windows", ""}
    THEN [rules |-> rs, g |-> g, cur |-> cur, ret |-> ""]
    ELSE IF query.exc \in CaughtByGenerate
    THEN [rules |-> rs, g |-> g, cur |-> category, ret |-> ""]
    ELSE IF query.exc # ""
    THEN [rules |-> rs, g |-> g, cur |-> category, ret |-> query.exc]
    ELSE [rules |-> Append(rs, BuildRule(sp.title, category, query.text,
                                         sp.level, sp.description)),
          g |-> g, cur |-> category, ret |-> None]

\* generate for a rule of a supported category.
generateSupported(rs, g, cur, sp, product, category, query) ==
    IF product \notin {"windows", ""}
    THEN [rules |-> rs, g |-> g, cur |-> cur, ret |-> ""]
    ELSE IF query.exc \in CaughtByGenerate
    THEN [rules |-> rs, g |-> g, cur |-> category, ret |-> ""]
    ELSE IF query.exc # ""
    THEN [rules |-> rs, g |-> g, cur |-> category, ret |-> query.exc]
    ELSE IF Len(query.text) > 0
    THEN [rules |-> Append(rs, BuildRule(sp.title, category, query.text,
                                         sp.level, sp.description)),
          g |-> g, cur |-> category, ret |-> None]
    ELSE [rules |-> rs, g |-> g, cur |-> category, ret |-> None]

\* A generate that takes every category for a supported one.
generateAnyCategory(rs, g, cur, sp, product, category, query) ==
    generateSupported(rs, g, cur, sp, product, category, query)

\* uberAgentBackend.generate past its call of super().generate, whose result
\* is query (a text, or the exception it raised).
generateWith(rs, g, cur, sp, product, category, query) ==
    IF ~is_sigma_category_supported(category)
    THEN [rules |-> rs, g |-> CountUnsupported(g, category), cur |-> cur, ret |-> ""]
    ELSE generateSupported(rs, g, cur, sp, product, category, query)

\* uberAgentBackend.generate as a function of the state it reads:
\* the new rules, unsupported-category counts, current category and the
\* value returned ("" or None) or the exception that leaves the call.
generate(rs, g, cur, sp) ==
    LET product == Lower(sp.product)
        category == Lower(sp.category)
    IN  Only({generateWith(rs, g, cur, sp, product, category, query) :
                query \in {BaseGenerate(category, sp)}})

\* A serialize_file that writes the newest rule first.
RECURSIVE serialize_rules_reversed(_, _)
serialize_rules_reversed(rs, level) ==
    IF rs = <<>> THEN [text |-> <<>>, count |-> 0]
    ELSE Only({
            IF rule.sigma_level = level /\ serialized_rule.exc = ""
            THEN [text |-> rest.text \o <<Append(serialized_rule.text, <<"">>)>>,
                  count |-> 1 + rest.count]
            ELSE rest
          : rule \in {Head(rs)},
            serialized_rule \in {RuleStr(Head(rs))},
            rest \in {serialize_rules_reversed(Tail(rs), level)}})

\* uberAgentBackend.serialize_file: the file written and the count returned.
RECURSIVE serialize_rules(_, _)
serialize_rules(rs, level) ==
    IF rs = <<>> THEN [text |-> <<>>, count |-> 0]
    ELSE Only({
            IF rule.sigma_level = level /\ serialized_rule.exc = ""
            THEN [text |-> <<Append(serialized_rule.text, <<"">>)>> \o rest.text,
                  count |-> 1 + rest.count]
            ELSE rest
          : rule \in {Head(rs)},
            serialized_rule \in {RuleStr(Head(rs))},
            rest \in {serialize_rules(Tail(rs), level)}})

serialize_file(rs, level) ==
    Only({[text |-> write_file_header(level) \o body.text, count |-> body.count]
          : body \in {serialize_rules(rs, level)}})

NoFiles == [l \in FileLevels |-> <<>>]

NoSummary == [printed |-> FALSE, total |-> 0, critical |-> 0, high |-> 0,
              medium |-> 0, low |-> 0]

\* uberAgentBackend.finalize: the four files and the counts printed.
finalize(rs) ==
    Only({[files |-> [l \in FileLevels |-> written[l].text],
           summary |-> [printed |-> TRUE,
                        total |-> Len(rs),
                        critical |-> written["critical"].count,
                        high |-> written["high"].count,
                        medium |-> written["medium"].count,
                        low |-> written["low"].count]]
          : written \in {[l \in FileLevels |-> serialize_file(rs, l)]}})

----------------------------------------------------------------------------
(* Inputs of the conversion run *)

Levels == {"critical", "high", "medium", "low", "informational"}

UnsupportedCategories == {"file_event"}

GoodTree == MapItem("Image", StrV(<<"a">>))

IgnoredItem == MapItem("EventID", IntV(1))

Rule(title, level) ==
    [product |-> "windows", category |-> "process_creation", title |-> title,
     level |-> level, description |-> "d", parsedAgg |-> FALSE,
     parsedSearch |-> GoodTree]

PlainRule == Rule(<<"A">>, "high")

DroppedInputs ==
    {[PlainRule EXCEPT !.category = "file_event"],
     [PlainRule EXCEPT !.product = "linux"],
     [PlainRule EXCEPT !.parsedAgg = TRUE],
     [PlainRule EXCEPT !.parsedSearch = MapItem("Image", TypedV("re", <<"a">>))],
     [PlainRule EXCEPT !.parsedSearch = IgnoredItem],
     [PlainRule EXCEPT !.parsedSearch = AndNode(<<GoodTree, IgnoredItem>>)],
     [PlainRule EXCEPT !.parsedSearch = OrNode(<<IgnoredItem, GoodTree>>)],
     [PlainRule EXCEPT !.parsedSearch = MapItem("Foo", StrV(<<"a">>))],
     [PlainRule EXCEPT !.parsedSearch = AndNode(<<>>)]}

OtherInputs ==
    {[Rule(<<"B", " ", "c">>, "high") EXCEPT
        !.category = "dns", !.product = "", !.description = "",
        !.parsedSearch = AndNode(<<MapItem("Query", StrV(<<"a", "*">>)),
                                   MapItem("Query", NullV)>>)],
     Rule(<<>>, "high")}

Inputs == {Rule(<<"A">>, l) : l \in Levels} \cup DroppedInputs \cup OtherInputs

----------------------------------------------------------------------------
(* The conversion run as a state machine *)

IdleValue == val = <<>> /\ op = "idle" /\ out = <<>>

Init ==
    /\ rules = <<>>
    /\ gUnsupportedCategories = [c \in UnsupportedCategories |-> 0]
    /\ current_category = None
    /\ files = NoFiles
    /\ summary = NoSummary
    /\ ret = None
    /\ IdleValue

Generate(sp) ==
    \E r \in {generate(rules, gUnsupportedCategories, current_category, sp)} :
        /\ Len(r.rules) <= MaxRules
        /\ \A c \in UnsupportedCategories : r.g[c] <= MaxUnsupported
        /\ rules' = r.rules
        /\ gUnsupportedCategories' = r.g
        /\ current_category' = r.cur
        /\ ret' = r.ret
        /\ UNCHANGED <<files, summary, valueVars>>

Finalize ==
    /\ UNCHANGED <<rules, gUnsupportedCategories, current_category, ret, valueVars>>
    /\ \E f \in {finalize(rules)} : files' = f.files /\ summary' = f.summary

\* A new uberAgentBackend instance: its instance attributes are the class
\* defaults again; rules is the class's own list, shared by every instance.
NewBackend ==
    /\ current_category' = None
    /\ UNCHANGED <<rules, gUnsupportedCategories, files, summary, ret, valueVars>>

Next ==
    \/ \E sp \in Inputs : Generate(sp)
    \/ Finalize
    \/ NewBackend

Spec == Init /\ [][Next]_vars

\* The generate calls of a run, by one backend instance or several, before
\* finalize.
NextGenerate ==
    \/ \E sp \in Inputs : Generate(sp)
    \/ NewBackend

SpecGenerate == Init /\ [][NextGenerate]_vars

----------------------------------------------------------------------------
(* Properties of the conversion run (specification Spec) *)

\* A rule whose block has all its required properties.
WellFormed(rule) ==
    /\ rule.event_type # None
    /\ Len(rule.tag) > 0
    /\ Len(rule.name) > 0
    /\ Len(rule.query) > 0

\* What serialize_file writes for one rule: its block and an empty line.
Chunk(rule) == Append(RuleStr(rule).text, <<"">>)

\* The positions of a file that hold the chunk of the rule.
ChunkPositions(file, rule) == {k \in 2..Len(file) : file[k] = Chunk(rule)}

CountWellFormed(rs) == Len(SelectSeq(rs, WellFormed))

\* C1: after finalize every well-formed accumulated rule, of any of the five
\* severities, is in the artifact of its own severity and in no other, and
\* the per-partition counts add up to the number of well-formed rules.
C1_EveryWellFormedRuleWritten ==
    [][Finalize =>
        /\ \A i \in 1..Len(rules') :
              WellFormed(rules'[i]) =>
                /\ rules'[i].sigma_level \in DOMAIN files'
                /\ \A l \in DOMAIN files' :
                      (ChunkPositions(files'[l], rules'[i]) # {})
                        <=> (l = rules'[i].sigma_level)
        /\ summary'.critical + summary'.high + summary'.medium + summary'.low
              = CountWellFormed(rules')
      ]_vars

\* The FieldMatch children of an AND/OR whose field is in the ignore set.
IsIgnoredClause(category, node) ==
    node.t = "map" /\ fieldNameMapping(category, node.field).exc = "IgnoreFieldException"

HasIgnoredClause(sp) ==
    /\ sp.parsedSearch.t \in {"and", "or"}
    /\ \E i \in 1..Len(sp.parsedSearch.children) :
          IsIgnoredClause(Lower(sp.category), sp.parsedSearch.children[i])

\* The same rule with the ignored clauses absent from its AND/OR.
WithoutIgnoredClauses(sp) ==
    [sp EXCEPT !.parsedSearch.children =
        SelectSeq(@, LAMBDA c : ~IsIgnoredClause(Lower(sp.category), c))]

\* C2: a rule with an ignored-field clause inside its AND/OR is compiled and
\* emitted as the same rule with that clause absent would be.
C2_IgnoredClauseElided ==
    [][\A sp \in Inputs :
          (/\ HasIgnoredClause(sp)
           /\ Len(rules) < MaxRules
           /\ Generate(sp))
          => Generate(WithoutIgnoredClauses(sp))
      ]_vars

\* C3: the accumulator is empty when a batch starts (a new backend instance)
\* and empty again after finalize.
C3_AccumulatorEmptyBetweenBatches ==
    [][(Finalize \/ NewBackend) => rules' = <<>>]_vars

\* The chunks finalize should write to the file of a level: those of the
\* well-formed rules of that level.
WellFormedOfLevel(rs, level) ==
    SelectSeq(rs, LAMBDA r : WellFormed(r) /\ r.sigma_level = level)

\* C4: a rule lacking a required property fails with the malformed-rule
\* error, leaves no text in any artifact and is in no partition count; each artifact holds its header and the blocks of
\* the well-formed rules of its level, and the count is their number.
C4_MalformedRuleDroppedAlone ==
    [][Finalize =>
        \A l \in FileLevels :
            LET wf == WellFormedOfLevel(rules', l)
            IN  /\ files'[l] = write_file_header(l) \o [i \in 1..Len(wf) |-> Chunk(wf[i])]
                /\ summary'[l] = Len(wf)
                /\ \A i \in 1..Len(rules') :
                      ~WellFormed(rules'[i])
                        => RuleStr(rules'[i]).exc = "MalformedRuleException"
      ]_vars

C4_Witness ==
    /\ summary.printed
    /\ Len(rules) = 2
    /\ ~WellFormed(rules[1]) /\ rules[1].sigma_level = "high"
    /\ WellFormed(rules[2]) /\ rules[2].sigma_level = "high"
    /\ Len(files["high"]) = 2
    /\ summary.high = 1 /\ summary.total = 2

SupportedEventTypes == {categories[c] : c \in DOMAIN categories}

\* C5: generate on a rule of an unsupported category returns "" and leaves
\* the accumulator as it was, and every block finalize writes is the block of
\* an accumulated rule, whose event type is that of a supported category.
C5_UnsupportedCategoryExcluded ==
    [][/\ \A sp \in Inputs :
            (~is_sigma_category_supported(Lower(sp.category)) /\ Generate(sp))
            => (ret' = "" /\ rules' = rules)
       /\ \A i \in 1..Len(rules') : rules'[i].event_type \in SupportedEventTypes
       /\ Finalize =>
            \A l \in FileLevels : \A k \in 2..Len(files'[l]) :
                \E i \in 1..Len(rules') : files'[l][k] = Chunk(rules'[i])
      ]_vars

C5_Witness ==
    /\ gUnsupportedCategories["file_event"] > 0
    /\ ret = ""
    /\ summary.printed
    /\ Len(rules) = 2 /\ summary.total = 2
    /\ Len(files["high"]) + Len(files["critical"]) = 4

\* C6: within an artifact the blocks are in the order the rules were emitted:
\* of two well-formed rules of one level, the earlier one's block comes first.
C6_InsertionOrderKept ==
    [][Finalize =>
        \A l \in FileLevels : \A i, j \in 1..Len(rules') :
            (/\ i < j
             /\ WellFormed(rules'[i]) /\ WellFormed(rules'[j])
             /\ rules'[i].sigma_level = l /\ rules'[j].sigma_level = l)
            => \E p, q \in 2..Len(files'[l]) :
                  /\ p < q
                  /\ files'[l][p] = Chunk(rules'[i])
                  /\ files'[l][q] = Chunk(rules'[j])
      ]_vars

C6_Witness ==
    /\ summary.printed
    /\ Len(rules) = 2
    /\ rules[1].name = <<"B", " ", "c">> /\ rules[2].name = <<"A">>
    /\ Len(files["high"]) = 3
    /\ files["high"][2] = Chunk(rules[1])
    /\ files["high"][3] = Chunk(rules[2])

\* C16 (specification SpecGenerate):
\* generate changes the rule list only by appending one rule, for an
\* input that compiles to a non-empty query; an input that is dropped
\* (unsupported category or product, aggregation, typed modifier, ignored or
\* unknown field, empty query) leaves the list as it was.
C16_ListChangesOnlyByAppend ==
    [][/\ \A sp \in Inputs : Generate(sp) =>
            IF sp \in DroppedInputs
            THEN rules' = rules
            ELSE /\ Len(rules') = Len(rules) + 1
                 /\ SubSeq(rules', 1, Len(rules)) = rules
                 /\ rules'[Len(rules')].name = sp.title
                 /\ rules'[Len(rules')].sigma_level = sp.level
                 /\ Len(rules'[Len(rules')].query) > 0
       /\ NewBackend => rules' = rules
      ]_vars

\* A rule with an unknown field met after one rule was appended.
C16_Witness ==
    /\ Len(rules) = 1
    /\ ret = "NotImplementedError"

----------------------------------------------------------------------------
(* The value-level operations on their own (specification SpecValue) *)

Alphabet == {BS, "*", "?", "_", "%", DQ, SQ, ",", "a"}

Literals == StringsUpTo(Alphabet, MaxLen)

\* Wildcard glyphs behind runs of backslashes of every length up to MaxRun.
EscapedGlyphs == {Rep(BS, r) \o <<g>> : r \in 0..MaxRun, g \in {"*", "?"}}

Scalars == {StrV(s) : s \in Literals \cup EscapedGlyphs} \cup {IntV(5), IntV(-12)}

src_ip == <<"s", "r", "c", "_", "i", "p">>

user == <<"u", "s", "e", "r">>

Keys == {src_ip, user}

ListItems ==
    {NullV, IntV(5),
     StrV(<<"1", "0", ".", "0", ".", "0", ".", "0", "/", "1", "6">>),
     StrV(<<"1", "0", ".", "0", ".", "0", ".", "0", "/", "8">>),
     StrV(<<"1", "0", ".", "0", ".", "0", ".", "5">>),
     StrV(<<"a", "*">>),
     StrV(<<"b">>)}

RECURSIVE ListsUpTo(_, _)
ListsUpTo(S, n) ==
    IF n = 0 THEN {<<>>}
    ELSE LET L == ListsUpTo(S, n - 1)
         IN  L \cup {Append(l, x) : l \in {m \in L : Len(m) = n - 1}, x \in S}

Lists == {ListV(l) : l \in ListsUpTo(ListItems, MaxItems) \ {<<>>}}

ValueInputs ==
    {[key |-> user, value |-> v] : v \in Scalars}
    \cup {[key |-> k, value |-> v] : k \in Keys, v \in Lists}

InitValue ==
    /\ rules = <<>>
    /\ gUnsupportedCategories = [c \in UnsupportedCategories |-> 0]
    /\ current_category = None
    /\ files = NoFiles
    /\ summary = NoSummary
    /\ ret = None
    /\ val \in ValueInputs
    /\ op = "idle"
    /\ out = <<>>

\* uberAgentBackend.cleanValue(val)
UaCleanValueStep ==
    /\ op = "idle"
    /\ val.value.t = "str"
    /\ out' = UaCleanValue(val.value)
    /\ op' = "ua_cleanValue"
    /\ UNCHANGED <<val, batchVars>>

\* QRadarBackend.cleanValue(val)
QrCleanValueStep ==
    /\ op = "idle"
    /\ val.value.t = "str"
    /\ out' = QrCleanValue(val.value.s)
    /\ op' = "qr_cleanValue"
    /\ UNCHANGED <<val, batchVars>>

\* uberAgentBackend.generateMapItemNode(("Image", val)) in a process_creation rule
UaMapItemStep ==
    /\ op = "idle"
    /\ val.value.t \in {"str", "int"}
    /\ out' = UaGenerateMapItemNode("process_creation", MapItem("Image", val.value))
    /\ op' = "ua_generateMapItemNode"
    /\ UNCHANGED <<val, batchVars>>

\* QRadarBackend.generateMapItemNode((key, val)), scalar or list
QrMapItemStep ==
    /\ op = "idle"
    /\ out' = QrGenerateMapItemNode(MapItem(val.key, val.value))
    /\ op' = "qr_generateMapItemNode"
    /\ UNCHANGED <<val, batchVars>>

NextValue ==
    \/ UaCleanValueStep
    \/ QrCleanValueStep
    \/ UaMapItemStep
    \/ QrMapItemStep

SpecValue == InitValue /\ [][NextValue]_vars

----------------------------------------------------------------------------
(* Properties of the value-level operations (specification SpecValue) *)

\* A * or ? preceded by an even number (zero included) of backslashes.
HasRealWildcard(s) ==
    \E i \in 1..Len(s) : s[i] \in {"*", "?"} /\ RunBefore(s, i) % 2 = 0

ImageField == <<"Process.Path">>

ScalarMapItemDone ==
    /\ op \in {"ua_generateMapItemNode", "qr_generateMapItemNode"}
    /\ val.value.t \in {"str", "int"}

\* The pattern-match and equality expressions of the two backends.
IsPatternMatch ==
    IF op = "ua_generateMapItemNode"
    THEN out.text = ImageField \o <<" like r">> \o UaGenerateValueNode(val.value)
    ELSE /\ StartsWith(out.text, QrCleanKey(val.key) \o <<" ilike ">>)
         /\ out.text[Len(out.text)] = SQ

IsEquality ==
    IF op = "ua_generateMapItemNode"
    THEN out.text = ImageField \o <<" == ">> \o UaGenerateValueNode(val.value)
    ELSE out.text = QrCleanKey(val.key) \o <<"=">> \o QrGenerateValueNode(val.value, TRUE)

RECURSIVE SplitAtOr(_, _)
SplitAtOr(text, acc) ==
    IF text = <<>> THEN <<acc>>
    ELSE IF Head(text) = " or " THEN <<acc>> \o SplitAtOr(Tail(text), <<>>)
    ELSE SplitAtOr(Tail(text), Append(acc, Head(text)))

Clauses(text) == SplitAtOr(SubSeq(text, 2, Len(text) - 1), <<>>)

ClauseKind(clause) ==
    IF \E i \in 1..Len(clause) : clause[i] = " is null" THEN "null-test"
    ELSE IF clause # <<>> /\ clause[1] = "INCIDR(" THEN "address-in-range"
    ELSE IF \E i \in 1..Len(clause) : clause[i] = " ilike " THEN "pattern-match"
    ELSE IF \E i \in 1..Len(clause) : clause[i] = " = " THEN "equality"
    ELSE "other"

AllDigits(s) == s # <<>> /\ \A i \in 1..Len(s) : s[i] \in Digits

\* An IPv4 CIDR block: four dot-separated groups of digits, a slash and a
\* prefix length of one or two digits that is at most 32.
IsCidrBlock(s) ==
    \E k \in 1..Len(s) :
        /\ s[k] = "/"
        /\ LET addr == SubSeq(s, 1, k - 1)
               prefix == SubSeq(s, k + 1, Len(s))
               dots == {i \in 1..Len(addr) : addr[i] = "."}
           IN  /\ AllDigits(prefix)
               /\ Len(prefix) <= 2
               /\ (IF Len(prefix) = 1 THEN DigitVal(prefix[1])
                   ELSE 10 * DigitVal(prefix[1]) + DigitVal(prefix[2])) <= 32
               /\ Cardinality(dots) = 3
               /\ \A i \in 1..Len(addr) : addr[i] \in Digits \cup {"."}
               /\ addr[1] # "." /\ addr[Len(addr)] # "."
               /\ \A i \in dots : (i + 1) \notin dots

ExpectedClauseKind(key, item) ==
    IF item.t = "null" THEN "null-test"
    ELSE IF item.t = "str" /\ Contains(key, <<"i", "p">>) /\ IsCidrBlock(item.s)
    THEN "address-in-range"
    ELSE IF item.t = "str" /\ HasRealWildcard(item.s) THEN "pattern-match"
    ELSE "equality"

\* C8: a list of n items renders n OR-joined clauses in input order inside
\* one pair of parentheses; clause i is the null-test for a Null item, the
\* address-in-range expression for a CIDR block under a field name holding
\* "ip", else the pattern-match expression for an item with a wildcard, else
\* the equality expression.
C8_ListClausePerItem ==
    (op = "qr_generateMapItemNode" /\ val.value.t = "list") =>
        /\ out.exc = ""
        /\ Head(out.text) = "(" /\ out.text[Len(out.text)] = ")"
        /\ Len(Clauses(out.text)) = Len(val.value.items)
        /\ \A i \in 1..Len(val.value.items) :
              ClauseKind(Clauses(out.text)[i])
                = ExpectedClauseKind(val.key, val.value.items[i])

Glyph(g) == IF g = "*" THEN "%" ELSE "_"

\* C9: in cleanValue's output every * or ? behind an even run of backslashes
\* is the target glyph behind the same run, and every * or ? behind an odd
\* run is itself behind that run; the text before the run and after the glyph
\* is escaped on its own.
C9_WildcardTranslationKeepsRun ==
    op = "ua_cleanValue" =>
        \A i \in 1..Len(val.value.s) :
            val.value.s[i] \in {"*", "?"} =>
                LET s == val.value.s
                    r == RunBefore(s, i)
                IN  out = UaCleanStr(SubSeq(s, 1, i - r - 1))
                          \o Rep(BS, r)
                          \o <<IF r % 2 = 0 THEN Glyph(s[i]) ELSE s[i]>>
                          \o UaCleanStr(SubSeq(s, i + 1, Len(s)))

\* C10: escaping is reversible: no other literal escapes to the text the
\* escaped literal gave, for either backend's cleanValue.
C10_EscapingInjective ==
    /\ op = "ua_cleanValue" =>
          \A s \in Literals : UaCleanStr(s) = out => s = val.value.s
    /\ op = "qr_cleanValue" =>
          \A s \in Literals : QrCleanValue(s) = out => s = val.value.s

----------------------------------------------------------------------------
(* Field resolution on its own (specification SpecField) *)

\* Spellings of field names; each set holds the spellings of one name.
CaseVariants ==
    {{"Image", "IMAGE", "image"}, {"SHA1", "Sha1", "sha1"},
     {"Query", "QUERY", "query"}, {"EventID", "EVENTID", "eventid"},
     {"Foo", "FOO", "foo"}, {"SRC_IP", "src_ip"}, {"Signed", "signed"},
     {"TargetObject", "targetobject"}, {"User", "user"}}

FieldNames == UNION CaseVariants

\* The values of current_category: the class default and the categories
\* generate lets through.
CurrentCategories == DOMAIN categories \cup {None}

FieldInputs ==
    {[key |-> f, value |-> [t |-> "category", c |-> c]] :
        f \in FieldNames, c \in CurrentCategories}

InitField ==
    /\ rules = <<>>
    /\ gUnsupportedCategories = [c \in UnsupportedCategories |-> 0]
    /\ current_category = None
    /\ files = NoFiles
    /\ summary = NoSummary
    /\ ret = None
    /\ val \in FieldInputs
    /\ op = "idle"
    /\ out = <<>>

\* uberAgentBackend.fieldNameMapping(val.key, ...) with current_category set
UaFieldNameMappingStep ==
    /\ op = "idle"
    /\ current_category' = val.value.c
    /\ out' = fieldNameMapping(val.value.c, val.key)
    /\ op' = "ua_fieldNameMapping"
    /\ UNCHANGED <<val, rules, gUnsupportedCategories, files, summary, ret>>

NextField == UaFieldNameMappingStep

SpecField == InitField /\ [][NextField]_vars

----------------------------------------------------------------------------
(* Properties of field resolution (specification SpecField) *)

InCategoryTable(category, key) ==
    /\ category \in DOMAIN fieldMappingPerCategory
    /\ key \in DOMAIN fieldMappingPerCategory[category]

\* C11: the category-scoped entry of the lowercased name wins; else the
\* global entry; else the ignore signal for a name of the ignore set; else
\* the unsupported-field error; and every other spelling of the name resolves
\* to the same outcome.
C11_ResolutionOrder ==
    op = "ua_fieldNameMapping" =>
        LET key == Lower(val.key)
            category == val.value.c
        IN  /\ InCategoryTable(category, key)
                => out = Ok(<<fieldMappingPerCategory[category][key]>>)
            /\ (~InCategoryTable(category, key) /\ key \in DOMAIN fieldMapping)
                => out = Ok(<<fieldMapping[key]>>)
            /\ (/\ ~InCategoryTable(category, key)
                /\ key \notin DOMAIN fieldMapping
                /\ key \in ignoreFieldList)
                => out = Raise("IgnoreFieldException")
            /\ (/\ ~InCategoryTable(category, key)
                /\ key \notin DOMAIN fieldMapping
                /\ key \notin ignoreFieldList)
                => out = Raise("NotImplementedError")
            /\ \A names \in CaseVariants : \A other \in names :
                  val.key \in names => fieldNameMapping(category, other) = out

\* An upper-case spelling resolved through the category-scoped table.
C11_Witness ==
    /\ op = "ua_fieldNameMapping"
    /\ val.key = "SHA1"
    /\ val.value.c = "process_creation"
    /\ out = Ok(<<"Process.Hash.SHA1">>)

----------------------------------------------------------------------------
(* Regular-expression map items on their own (specification SpecRegex) *)

RegexAlphabet == {"^", "$", ".", "*", "a"}

Patterns == StringsUpTo(RegexAlphabet, MaxLen)

\* Regular-expression modifiers, and one modifier of another type.
RegexInputs ==
    {[key |-> user, value |-> TypedV("re", p)] : p \in Patterns}
    \cup {[key |-> user, value |-> TypedV("base64", <<"a">>)]}

InitRegex ==
    /\ rules = <<>>
    /\ gUnsupportedCategories = [c \in UnsupportedCategories |-> 0]
    /\ current_category = None
    /\ files = NoFiles
    /\ summary = NoSummary
    /\ ret = None
    /\ val \in RegexInputs
    /\ op = "idle"
    /\ out = <<>>

\* The regex of a rendered "key imatches '...'": the text between the quotes.
RenderedRegex(key, text) == SubSeq(text, Len(QrCleanKey(key)) + 3, Len(text) - 1)

\* QRadarBackend.generateMapItemNode((key, val)) with val a type modifier
QrTypedStep ==
    /\ op = "idle"
    /\ out' = QrGenerateMapItemNode(MapItem(val.key, val.value))
    /\ op' = "qr_generateMapItemTypedNode"
    /\ UNCHANGED <<val, batchVars>>

\* The same call on the regex the first call rendered.
QrTypedAgainStep ==
    /\ op = "qr_generateMapItemTypedNode"
    /\ out.exc = ""
    /\ val' = [val EXCEPT !.value.s = RenderedRegex(val.key, out.text)]
    /\ out' = QrGenerateMapItemNode(MapItem(val'.key, val'.value))
    /\ op' = "qr_generateMapItemTypedNode_again"
    /\ UNCHANGED batchVars

NextRegex ==
    \/ QrTypedStep
    \/ QrTypedAgainStep

SpecRegex == InitRegex /\ [][NextRegex]_vars

----------------------------------------------------------------------------
(* Properties of regex anchoring (specification SpecRegex) *)

Imatches(key, regex) ==
    Ok(QrCleanKey(key) \o <<" imatches ", SQ>> \o regex \o <<SQ>>)

\* C12: the rendered regex is the pattern with .* in front unless it starts
\* with ^ or .*, and then with .* behind unless it ends with $ or .*; a
\* second anchoring, of the rendered regex, renders the same regex.
C12_AnchoringIdempotent ==
    /\ (op = "qr_generateMapItemTypedNode" /\ val.value.kind = "re") =>
          LET p == val.value.s
              front == IF (p # <<>> /\ p[1] = "^")
                          \/ (Len(p) >= 2 /\ p[1] = "." /\ p[2] = "*")
                       THEN p ELSE <<".", "*">> \o p
              n == Len(front)
              anchored == IF front[n] = "$"
                             \/ (n >= 2 /\ front[n - 1] = "." /\ front[n] = "*")
                          THEN front ELSE front \o <<".", "*">>
          IN  out = Imatches(val.key, anchored)
    /\ op = "qr_generateMapItemTypedNode_again" =>
          out = Imatches(val.key, val.value.s)

\* abc-like pattern without anchors rendered, then anchored a second time.
C12_Witness ==
    /\ op = "qr_generateMapItemTypedNode_again"
    /\ val.value.s = <<".", "*", "a", "$">>
    /\ out = Imatches(user, <<".", "*", "a", "$">>)

----------------------------------------------------------------------------
(* QRadar aggregation queries on their own (specification SpecAgg) *)

my_field == <<"m", "y", " ", "f">>

Aggregations ==
    {[aggfunc |-> f, aggfunc_notrans |-> f, aggfield |-> a, groupfield |-> g,
      cond_op |-> o, condition |-> "5"] :
        f \in {"count", "sum", AGGFUNC_NEAR}, a \in {NoneKey, user, my_field},
        g \in {NoneKey, src_ip}, o \in {">", "<="}}

\* detection.timeframe: absent, the value of generateAggregation's default,
\* numbers with a unit, a unit without a number.
Timeframes ==
    {NoTimeframe, DefaultTimeframe,
     <<"3", "0", "m">>, <<"5", "s">>, <<"1", "h">>, <<"7", "d">>,
     <<"2", "M">>, <<"3", "w">>, <<"0", "5", "m">>, <<"m">>}

AggInputs ==
    {[condparsed |-> [parsedSearch |-> MapItem(user, StrV(<<"a">>)), parsedAgg |-> a],
      index |-> i, fields |-> f, timeframe |-> t] :
        a \in Aggregations \cup {NoAgg},
        i \in {<< <<"f", "l", "o", "w", "s">> >>, << <<"w", "i", "n">> >>},
        f \in {NoFields, <<user, my_field>>},
        t \in Timeframes}

InitAgg ==
    /\ rules = <<>>
    /\ gUnsupportedCategories = [c \in UnsupportedCategories |-> 0]
    /\ current_category = None
    /\ files = NoFiles
    /\ summary = NoSummary
    /\ ret = None
    /\ val \in AggInputs
    /\ op = "idle"
    /\ out = <<>>

\* QRadarBackend.generateAggregation as generateQuery calls it
QrGenerateAggregationStep ==
    /\ op = "idle"
    /\ out' = IF val.timeframe = NoTimeframe
              THEN QrGenerateAggregation(val.condparsed.parsedAgg, DefaultTimeframe)
              ELSE QrGenerateAggregation(val.condparsed.parsedAgg, val.timeframe)
    /\ op' = "qr_generateAggregation"
    /\ UNCHANGED <<val, batchVars>>

\* QRadarBackend.generate(sigmaparser)
QrGenerateStep ==
    /\ op = "idle"
    /\ out' = QrGenerate(val)
    /\ op' = "qr_generate"
    /\ UNCHANGED <<val, batchVars>>

NextAgg ==
    \/ QrGenerateAggregationStep
    \/ QrGenerateStep

SpecAgg == InitAgg /\ [][NextAgg]_vars

----------------------------------------------------------------------------
(* Properties of QRadar aggregation (specification SpecAgg) *)

Agg == val.condparsed.parsedAgg

\* An aggregation the backend translates.
Translated == Agg # NoAgg /\ Agg.aggfunc # AGGFUNC_NEAR

Having == <<" having agg_val ", Agg.cond_op, " ", Agg.condition>>

\* C13: without a group-by field the epilogue is the having part alone, with
\* no GROUP BY clause, also in the query generate returns.
C13_NoGroupByWithoutGroupField ==
    (Translated /\ Agg.groupfield = NoneKey) =>
        /\ op = "qr_generateAggregation" =>
              /\ out.exc = ""
              /\ out.suffix = Having
        /\ op = "qr_generate" =>
              /\ out.exc = ""
              /\ EndsWith(out.text, Having)
              /\ \A i \in 1..Len(out.text) : out.text[i] # " group by "

\* A timeframe made of a number and a trailing unit character.
NumberAndUnit(t) ==
    /\ t # NoTimeframe
    /\ Len(t) >= 2
    /\ AllDigits(SubSeq(t, 1, Len(t) - 1))
    /\ t[Len(t)] \notin Digits

RECURSIVE StripZeros(_)
StripZeros(ds) == IF Len(ds) > 1 /\ Head(ds) = "0" THEN StripZeros(Tail(ds)) ELSE ds

UnitOf(u) ==
    IF u = "s" THEN "seconds" ELSE IF u = "m" THEN "minutes"
    ELSE IF u = "h" THEN "hours" ELSE IF u = "d" THEN "days" ELSE "months"

\* The epilogue C14 describes for the rule at hand.
GroupedEpilogue ==
    <<" group by ">> \o QrCleanKey(Agg.groupfield) \o Having
    \o (IF val.timeframe = NoTimeframe THEN <<>>
        ELSE <<" LAST ">> \o StripZeros(SubSeq(val.timeframe, 1, Len(val.timeframe) - 1))
             \o <<" ", UnitOf(val.timeframe[Len(val.timeframe)])>>)

\* C14: with a group-by field g the epilogue is group by g, having agg_val
\* <op> <threshold> and, for a timeframe of a number n and a unit character,
\* LAST n <unit> with months for every unit other than s, m, h, d; without a
\* timeframe there is no LAST window.
C14_GroupedEpilogue ==
    (/\ Translated
     /\ Agg.groupfield # NoneKey
     /\ val.timeframe = NoTimeframe \/ NumberAndUnit(val.timeframe)) =>
        /\ op = "qr_generateAggregation" =>
              out.exc = "" /\ out.suffix = GroupedEpilogue
        /\ op = "qr_generate" =>
              out.exc = "" /\ EndsWith(out.text, GroupedEpilogue)

\* Both windows rendered: an unknown unit, and a number with a leading zero.
C14_Witness ==
    /\ op = "qr_generate"
    /\ Translated
    /\ Agg.groupfield = src_ip
    /\ val.timeframe \in {<<"3", "w">>, <<"0", "5", "m">>}
    /\ EndsWith(out.text, <<" LAST ", "3", " ", "months">>)
       \/ EndsWith(out.text, <<" LAST ", "5", " ", "minutes">>)

\* C15: a near aggregation fails in generateAggregation before any prefix or
\* suffix exists, whatever its group-by field and the timeframe, and generate
\* returns no text.
C15_NearAlwaysFails ==
    (Agg # NoAgg /\ Agg.aggfunc = AGGFUNC_NEAR) =>
        /\ op = "qr_generateAggregation" => out = Raise("NotImplementedError")
        /\ op = "qr_generate" => out = Raise("NotImplementedError")

\* near with a group-by field and a timeframe that has no number.
C15_Witness ==
    /\ op = "qr_generate"
    /\ Agg # NoAgg
    /\ Agg.aggfunc = AGGFUNC_NEAR
    /\ Agg.groupfield = src_ip
    /\ val.timeframe = <<"m">>
    /\ out.exc = "NotImplementedError"

====
